---- MODULE Spec2Model ----
(***************************************************************************)
(* Streaming protocol adapter of the travel planner backend.               *)
(*                                                                         *)
(* LangGraphToVercelAdapter.stream (app/utils/langgraph_vercel_adapter.py) *)
(* consumes the updates a graph run yields and translates each of them     *)
(* into wire events.  A wire event is modelled by the dictionary the code  *)
(* hands to _format_sse_event; the framing ("data: " + JSON + blank line)  *)
(* is one-to-one and is not modelled.  The [DONE] sentinel is the record   *)
(* Done.                                                                   *)
(*                                                                         *)
(* Python values: a dict is a function whose DOMAIN is the set of keys     *)
(* present; None, "" and {} are the falsy strings of Falsy.                *)
(*                                                                         *)
(* Two specifications:                                                     *)
(*   Spec       stream() over an arbitrary graph: any update of Updates    *)
(*              may arrive at any time, the run may end or raise;          *)
(*   SpecGraph  the requirements graph (app/agents/requirements_graph.py)  *)
(*              run node by node, each node's update handed to the         *)
(*              adapter; one stream per run, a new run starts a new stream.*)
(***************************************************************************)
EXTENDS Naturals, Sequences, FiniteSets, TLC

VARIABLES
    pc,         \* position of stream(): "streaming" | "done"
    out,        \* the wire events yielded so far, in order
    consumed,   \* the updates received from graph.astream, in order
    marks,      \* marks[k] = Len(out) after update k was handled
    outcome,    \* how the run ended: "none" | "completed" | "error"
    state,      \* RequirementsGraphState of the thread (its checkpoint)
    node,       \* the node the requirements graph runs next
    status,     \* the thread: "new" | "running" | "suspended" | "completed" | "failed"
    resume,     \* the value of Command(resume=...) not yet delivered, or NoValue
    ideal,      \* the same run with interrupt() returning its value at once
    vs,         \* locals of vercel_stream.stream_langgraph_to_vercel
    textStarts, \* ids of the text-start events of all its streams, in order
    tstore,     \* travel_system_graph's checkpointer: thread id -> checkpoint
    rstore,     \* requirements_graph's checkpointer: thread id -> checkpoint
    run,        \* the requests being served: slot -> the run's local state
    writers,    \* who has written each key of rstore: (entry point, thread id)
    requests,   \* requests accepted so far
    loop        \* a thread of planner_graph or booker_graph and its run

avars == <<pc, out, consumed, marks, outcome>>
gvars == <<state, node, status, resume, ideal>>
vvars == <<vs, textStarts>>
\* what the adapter specifications leave alone
tvars == <<tstore, rstore, run, writers, requests>>
lvars == <<loop>>
xvars == <<vvars, tvars, lvars>>
vars == <<pc, out, consumed, marks, outcome, state, node, status, resume, ideal,
          vs, textStarts, tstore, rstore, run, writers, requests, loop>>

----------------------------------------------------------------------------
(* Bounds *)

MaxUpdates == 2     \* updates one run over an arbitrary graph may yield
MaxSteps == 4       \* node executions in one run of the requirements graph
MaxLog == 5         \* entries in the message log of a thread

----------------------------------------------------------------------------
(* Values *)

Falsy == {"", "None", "{}"}
Truthy(x) == x \notin Falsy

\* str.strip() on the strings of the model: whitespace-only text becomes "".
Whitespace == {" "}
Strip(s) == IF s \in Whitespace THEN "" ELSE s

Texts == {"", " ", "hi"}
UserText == "user text"

\* ids produced by _create_message_id (timestamp + 8 hex digits of a uuid4)
MsgIds == {"msg_1", "msg_2"}
\* ids produced by str(uuid.uuid4()) for a tool call that carries no id
Uuids == {"u1", "u2"}

Get(d, k, default) == IF k \in DOMAIN d THEN d[k] ELSE default

\* dict.get(k) or fallback
GetOr(d, k, fallback) ==
    IF k \in DOMAIN d /\ Truthy(d[k]) THEN d[k] ELSE fallback

----------------------------------------------------------------------------
(* Log entries (langchain messages) *)

AIMessage(content, calls) ==
    [kind |-> "ai", content |-> content, tool_calls |-> calls]
ToolMessage(id, content) ==
    [kind |-> "tool", content |-> content, tool_call_id |-> id]
HumanMessage(content) ==
    [kind |-> "human", content |-> content]

IsAI(m) == m.kind = "ai"
IsTool(m) == m.kind = "tool"

ToolName == "search_flight_availability"

Call1 == [id |-> "c1", name |-> ToolName, args |-> "args1"]
Call2 == [id |-> "c2", name |-> ToolName, args |-> "args2"]
CallNoId == [args |-> "args3"]      \* neither "id" nor "name"

CallLists == {<<>>, <<Call1>>, <<Call1, Call2>>, <<CallNoId>>}

----------------------------------------------------------------------------
(* Wire events *)

TextStart(id) == [type |-> "text-start", id |-> id]
TextDelta(id, delta) == [type |-> "text-delta", id |-> id, delta |-> delta]
TextEnd(id) == [type |-> "text-end", id |-> id]
ToolInputStart(id, name) ==
    [type |-> "tool-input-start", toolCallId |-> id, toolName |-> name]
ToolInputAvailable(id, name, input) ==
    [type |-> "tool-input-available", toolCallId |-> id, toolName |-> name,
     input |-> input]
ToolOutputAvailable(id, output) ==
    [type |-> "tool-output-available", toolCallId |-> id, output |-> output]
DataEvent(field, data) == [type |-> field, data |-> data]
Finish == [type |-> "finish"]
FinishInterrupt == [type |-> "finish", finishReason |-> "interrupt"]
ErrorEvent(msg) == [type |-> "error", error |-> msg]
Done == [type |-> "[DONE]"]

TextTypes == {"text-start", "text-delta", "text-end"}
ToolInputTypes == {"tool-input-start", "tool-input-available"}
ToolTypes == ToolInputTypes \cup {"tool-output-available"}
DataTypes == {"data-requirements", "data-itinerary", "data-bookings"}

TextBlock(id, text) == <<TextStart(id), TextDelta(id, text), TextEnd(id)>>

----------------------------------------------------------------------------
(* LangGraphToVercelAdapter *)

HasToolCalls(message) ==
    "tool_calls" \in DOMAIN message /\ message.tool_calls # <<>>

\* only the first declared call is streamed
HandleToolCallsFirstOnly(message, uuids) ==
    IF ~HasToolCalls(message) THEN <<>>
    ELSE LET call == message.tool_calls[1]
             id == GetOr(call, "id", uuids[1])
             name == Get(call, "name", "unknown_tool")
         IN <<ToolInputStart(id, name),
              ToolInputAvailable(id, name, Get(call, "args", "{}"))>>

\* tool-input-available is yielded before tool-input-start
HandleToolCallsSwapped(message, uuids) ==
    IF ~HasToolCalls(message) THEN <<>>
    ELSE LET calls == message.tool_calls
             id(i) == GetOr(calls[i], "id", uuids[i])
             name(i) == Get(calls[i], "name", "unknown_tool")
             args(i) == Get(calls[i], "args", "{}")
         IN [j \in 1..(2 * Len(calls)) |->
               LET i == (j + 1) \div 2
               IN IF j % 2 = 0
                  THEN ToolInputStart(id(i), name(i))
                  ELSE ToolInputAvailable(id(i), name(i), args(i))]

\* _handle_tool_calls: uuids[i] is the uuid4 drawn for call i if it has no id.
HandleToolCalls(message, uuids) ==
    IF ~HasToolCalls(message) THEN <<>>
    ELSE LET calls == message.tool_calls
             id(i) == GetOr(calls[i], "id", uuids[i])
             name(i) == Get(calls[i], "name", "unknown_tool")
             args(i) == Get(calls[i], "args", "{}")
         IN [j \in 1..(2 * Len(calls)) |->
               LET i == (j + 1) \div 2
               IN IF j % 2 = 1
                  THEN ToolInputStart(id(i), name(i))
                  ELSE ToolInputAvailable(id(i), name(i), args(i))]

\* the result is streamed without the call id of the entry
HandleToolResultNoId(message) ==
    <<ToolOutputAvailable("unknown", message.content)>>

\* a result that carries the error marker is reported as a stream error
HandleToolResultAsError(message) ==
    IF message.content = "error"
    THEN <<ErrorEvent(message.content)>>
    ELSE <<ToolOutputAvailable(Get(message, "tool_call_id", "unknown"),
                               message.content)>>

\* _handle_tool_result
HandleToolResult(message) ==
    <<ToolOutputAvailable(Get(message, "tool_call_id", "unknown"),
                          message.content)>>

\* _handle_interrupt: the payload text of the first Interrupt object
InterruptMessage(state_update) ==
    LET interrupt_list == Get(state_update, "__interrupt__", <<>>)
    IN IF interrupt_list = <<>> THEN ""
       ELSE LET interrupt_obj == interrupt_list[1]
            IN IF "value" \in DOMAIN interrupt_obj
               THEN interrupt_obj.value
               ELSE interrupt_obj.repr

\* the interrupt message is not streamed as text
HandleInterruptNoText(state_update, mid) == <<FinishInterrupt>>

HandleInterrupt(state_update, mid) ==
    LET interrupt_message == InterruptMessage(state_update)
    IN (IF Truthy(interrupt_message)
        THEN TextBlock(mid, interrupt_message)
        ELSE <<>>)
       \o <<FinishInterrupt>>

\* the custom data fields streamed at the end of _handle_node_update
DataField(chunk, field) ==
    IF field \in DOMAIN chunk /\ Truthy(chunk[field])
    THEN <<DataEvent("data-" \o field, chunk[field])>>
    ELSE <<>>

DataEvents(chunk) ==
    DataField(chunk, "requirements") \o DataField(chunk, "itinerary")
        \o DataField(chunk, "bookings")

\* the whitespace test (content.strip()) is left out
TextEventsNoStrip(last_message, mid) ==
    LET content == last_message.content
    IN IF Truthy(content) THEN TextBlock(mid, content) ELSE <<>>

\* the text part of _handle_node_update for an AIMessage
TextEvents(last_message, mid) ==
    LET content == last_message.content
    IN IF Truthy(content) /\ Truthy(Strip(content))
       THEN TextBlock(mid, content)
       ELSE <<>>

\* the isinstance(last_message, AIMessage) test is left out
HandleNodeUpdateAnyEntry(chunk, mid, uuids) ==
    IF "__interrupt__" \in DOMAIN chunk
    THEN HandleInterrupt(chunk, mid)
    ELSE IF "messages" \in DOMAIN chunk /\ chunk["messages"] # <<>>
         THEN LET messages == chunk["messages"]
                  last_message == messages[Len(messages)]
              IN IF IsTool(last_message)
                 THEN HandleToolResult(last_message)
                 ELSE HandleToolCalls(last_message, uuids)
                      \o TextEvents(last_message, mid)
                      \o DataEvents(chunk)
         ELSE DataEvents(chunk)

\* the custom data fields are streamed before the entry's events
HandleNodeUpdateDataFirst(chunk, mid, uuids) ==
    IF "__interrupt__" \in DOMAIN chunk
    THEN HandleInterrupt(chunk, mid)
    ELSE IF "messages" \in DOMAIN chunk /\ chunk["messages"] # <<>>
         THEN LET messages == chunk["messages"]
                  last_message == messages[Len(messages)]
              IN IF IsTool(last_message)
                 THEN HandleToolResult(last_message)
                 ELSE IF ~IsAI(last_message)
                      THEN <<>>
                      ELSE DataEvents(chunk)
                           \o HandleToolCalls(last_message, uuids)
                           \o TextEvents(last_message, mid)
         ELSE DataEvents(chunk)

\* _handle_node_update: the events yielded for one update
HandleNodeUpdate(chunk, mid, uuids) ==
    IF "__interrupt__" \in DOMAIN chunk
    THEN HandleInterrupt(chunk, mid)
    ELSE IF "messages" \in DOMAIN chunk /\ chunk["messages"] # <<>>
         THEN LET messages == chunk["messages"]
                  last_message == messages[Len(messages)]
              IN IF IsTool(last_message)
                 THEN HandleToolResult(last_message)
                 ELSE IF ~IsAI(last_message)
                      THEN <<>>
                      ELSE HandleToolCalls(last_message, uuids)
                           \o TextEvents(last_message, mid)
                           \o DataEvents(chunk)
         ELSE DataEvents(chunk)

\* stream(): the body of "async for chunk in graph.astream(...)"
Emit(state_update, mid, uuids) ==
    LET events == HandleNodeUpdate(state_update, mid, uuids)
    IN /\ out' = out \o events
       /\ consumed' = Append(consumed, state_update)
       /\ marks' = Append(marks, Len(out) + Len(events))

\* the [DONE] sentinel is left out
CompletionEventsNoDone == <<Finish>>

\* stream(): what follows the loop over graph.astream
CompletionEvents == <<Finish, Done>>

\* the except branch falls through to the completion events
ErrorEventsFallThrough(msg) == <<ErrorEvent(msg), Finish, Done>>

\* stream(): the except branch
ErrorEvents(msg) == <<ErrorEvent(msg)>>

----------------------------------------------------------------------------
(* The updates a run may yield *)

Interrupt(value) == [value |-> value]

InterruptUpdates ==
    {("__interrupt__" :> l) :
        l \in {<<>>, <<Interrupt("q")>>, <<Interrupt("")>>, <<[repr |-> "obj"]>>}}

LastMessages ==
    {HumanMessage(UserText), ToolMessage("c1", "out"), ToolMessage("c2", "")}
    \cup {AIMessage(t, c) : t \in Texts, c \in CallLists}

MessageLists ==
    {<<>>} \cup {<<m>> : m \in LastMessages}
    \cup {<<HumanMessage(UserText), AIMessage("hi", <<>>)>>,
          <<AIMessage("hi", <<>>), HumanMessage(UserText)>>,
          <<AIMessage("", <<Call1>>), ToolMessage("c1", "out")>>}

FieldSets ==
    {[requirements |-> "R1"],
     [requirements |-> "None", itinerary |-> "I1"],
     [requirements |-> "R1", itinerary |-> "I1", bookings |-> "B1"]}

FieldMessageLists ==
    {<<>>, <<HumanMessage(UserText)>>, <<ToolMessage("c1", "out")>>,
     <<AIMessage("hi", <<>>)>>, <<AIMessage("", <<Call1>>)>>}

\* a mapping none of whose keys the adapter knows
UnknownUpdate == [unknown |-> "x"]

NodeUpdates ==
    {("messages" :> ms) : ms \in MessageLists}
    \cup FieldSets
    \cup {UnknownUpdate}
    \cup {("messages" :> ms) @@ f : ms \in FieldMessageLists, f \in FieldSets}

Updates == InterruptUpdates \cup NodeUpdates

\* chunks that are not mappings: a string, None (each stands for the Python
\* value it names)
NonMappings == {[notmapping |-> "str"], [notmapping |-> "NoneType"]}
IsMapping(chunk) == "notmapping" \notin DOMAIN chunk

\* str(e) of the AttributeError that chunk.keys() raises
AttributeErrorText(chunk) ==
    "'" \o chunk.notmapping \o "' object has no attribute 'keys'"

ErrorMessages == {"boom"}

----------------------------------------------------------------------------
(* stream() over an arbitrary graph *)

NoValue == "<none>"

\* stream_langgraph_to_vercel (vercel_stream.py) before its first call
NoState == [none |-> TRUE]
InitVercel ==
    /\ vs = [stream_mode |-> "messages", text_started |-> FALSE,
             final_state |-> NoState, interrupted |-> FALSE,
             interrupt_message |-> ""]
    /\ textStarts = <<>>

InitialState ==
    [messages |-> <<>>, requirements_complete |-> FALSE,
     interruption_message |-> "", requirements |-> "None"]

\* the reference run: its state, the node it is at, the agent and tool node
\* executions it has made (steps) and those the run itself has made (real)
NewIdeal ==
    [state |-> InitialState, node |-> "START", steps |-> <<>>,
     real |-> <<>>, resumed |-> 0]

InitThread ==
    /\ state = InitialState
    /\ node = "START"
    /\ status = "new"
    /\ resume = NoValue
    /\ ideal = NewIdeal

\* the planner and booker graphs before their first run
AgentOf(g) == g \o "_agent"
ResultKey(g) == IF g = "planner" THEN "itinerary" ELSE "bookings"
CompleteKey(g) == ResultKey(g) \o "_complete"
LoopToolName(g) == IF g = "planner" THEN "web_search" ELSE "search_hotels"

\* PlannerGraphState / BookerGraphState of a thread that never ran
NewLoopState(g) ==
    IF g = "requirements" THEN InitialState
    ELSE ("messages" :> <<>>) @@ (ResultKey(g) :> "None")
             @@ (CompleteKey(g) :> FALSE)

NewLoop(g) ==
    [graph |-> g, state |-> NewLoopState(g), node |-> "START",
     trace |-> <<>>]

InitLoopVars == loop = NewLoop("planner")

\* the travel system before its first request
Slots == {1, 2}     \* requests the server may have in progress at once

TravelThreads == {"a", "b"}
\* the thread id requirements_subgraph_node derives (line 40)
SubThread(parent_thread_id) == parent_thread_id \o "-requirements"
\* thread ids a caller may pass to stream_requirements_chat
ChatThreads == {"a-requirements", "c"}
RequirementsThreads == {SubThread(t) : t \in TravelThreads} \cup ChatThreads

\* the checkpoint of a thread of the requirements graph that never ran
NewSub == [state |-> InitialState, next |-> "START"]

\* TravelSystemState of a thread that never ran, and its checkpoint
NewTravelState ==
    [messages |-> <<>>, requirements |-> "None", itinerary |-> "None",
     bookings |-> "None"]

NewCheckpoint ==
    [state |-> NewTravelState, next |-> "START", pending |-> FALSE,
     resumes |-> <<>>]

IdleRun ==
    [phase |-> "idle", thread |-> "a", resume |-> FALSE,
     state |-> NewTravelState, node |-> "START", resumes |-> <<>>,
     out |-> <<>>, calls |-> <<>>, before |-> NewSub, suspended |-> FALSE,
     started |-> "none", disconnected |-> FALSE]

InitTravelVars ==
    /\ tstore = [t \in TravelThreads |-> NewCheckpoint]
    /\ rstore = [k \in RequirementsThreads |-> NewSub]
    /\ run = [i \in Slots |-> IdleRun]
    /\ writers = [k \in RequirementsThreads |-> {}]
    /\ requests = 0

Init ==
    /\ pc = "streaming"
    /\ out = <<>>
    /\ consumed = <<>>
    /\ marks = <<>>
    /\ outcome = "none"
    /\ InitThread
    /\ InitVercel
    /\ InitTravelVars
    /\ InitLoopVars

\* one iteration of "async for chunk in graph.astream(...)"
ConsumeUpdate ==
    /\ pc = "streaming"
    /\ Len(consumed) < MaxUpdates
    /\ \E u \in Updates, mid \in MsgIds, uuids \in [1..2 -> Uuids] :
          Emit(u, mid, uuids)
    /\ UNCHANGED <<pc, outcome>>
    /\ UNCHANGED gvars
    /\ UNCHANGED xvars

\* one iteration in which the chunk is not a mapping: chunk.keys() raises
\* inside the try block and the except branch ends the stream
ConsumeNonMapping ==
    /\ pc = "streaming"
    /\ Len(consumed) < MaxUpdates
    /\ \E chunk \in NonMappings :
          /\ out' = out \o ErrorEvents(AttributeErrorText(chunk))
          /\ consumed' = Append(consumed, chunk)
    /\ marks' = Append(marks, Len(out'))
    /\ pc' = "done"
    /\ outcome' = "error"
    /\ UNCHANGED gvars
    /\ UNCHANGED xvars

\* graph.astream is exhausted
EngineEnd ==
    /\ pc = "streaming"
    /\ out' = out \o CompletionEvents
    /\ pc' = "done"
    /\ outcome' = "completed"
    /\ UNCHANGED <<consumed, marks>>
    /\ UNCHANGED gvars
    /\ UNCHANGED xvars

\* graph.astream raises
EngineError ==
    /\ pc = "streaming"
    /\ \E msg \in ErrorMessages : out' = out \o ErrorEvents(msg)
    /\ pc' = "done"
    /\ outcome' = "error"
    /\ UNCHANGED <<consumed, marks>>
    /\ UNCHANGED gvars
    /\ UNCHANGED xvars

Next == ConsumeUpdate \/ ConsumeNonMapping \/ EngineEnd \/ EngineError

Spec == Init /\ [][Next]_vars

----------------------------------------------------------------------------
(* The requirements graph (app/agents/requirements_graph.py), its updates  *)
(* streamed through the adapter                                            *)

END == "__end__"
Halted == "__halted__"     \* the run stopped at an interrupt()

Questions == {"q"}
ResumeValues == {"v"}
UserMessages == {UserText}

\* search_flight_availability: the dict it returns, errors included
ToolOutputs == {"flights", "error"}

\* what the model may answer with tools bound: a tool-calling AIMessage
ToolCallResponses ==
    {AIMessage(t, c) : t \in {"", "hi"},
                       c \in {<<Call1>>, <<Call2>>, <<Call1, Call2>>}}

\* the completed answer leaves the requirements empty
RequirementsAgentNodeEmpty ==
    {("messages" :> <<response>>) : response \in ToolCallResponses}
    \cup {[messages |-> <<AIMessage(q, <<>>)>>,
           interruption_message |-> q,
           requirements_complete |-> FALSE,
           requirements |-> "None"] : q \in Questions}
    \cup {[messages |-> <<>>,
           requirements_complete |-> TRUE,
           interruption_message |-> "",
           requirements |-> "None"]}

\* requirements_agent_node: the deltas it may return
RequirementsAgentNode ==
    {("messages" :> <<response>>) : response \in ToolCallResponses}
    \cup {[messages |-> <<AIMessage(q, <<>>)>>,
           interruption_message |-> q,
           requirements_complete |-> FALSE,
           requirements |-> "None"] : q \in Questions}
    \cup {[messages |-> <<>>,
           requirements_complete |-> TRUE,
           interruption_message |-> "",
           requirements |-> "R1"]}

\* the state reducers: messages are appended, the other keys overwritten
MergeDelta(s, delta) ==
    [k \in DOMAIN s |->
        IF k \notin DOMAIN delta THEN s[k]
        ELSE IF k = "messages" THEN s[k] \o delta[k]
        ELSE delta[k]]

\* the targets declared by add_conditional_edges for requirements_agent
EdgeTargets == {"tools", "ask_user_for_info", END}

\* an entry without tool calls always ends the run
RouteAfterAgentNoAsk(s) ==
    LET messages == s.messages
    IN IF messages # <<>> /\ HasToolCalls(messages[Len(messages)])
       THEN "tools"
       ELSE END

\* route_after_agent
RouteAfterAgent(s) ==
    LET messages == s.messages
    IN IF messages # <<>> /\ HasToolCalls(messages[Len(messages)])
       THEN "tools"
       ELSE IF ~s.requirements_complete
            THEN "ask_user_for_info"
            ELSE END

\* tool_node: one ToolMessage per call of the last entry, in call order
ToolNodeDeltas(s) ==
    LET calls == s.messages[Len(s.messages)].tool_calls
    IN {("messages" :> [i \in 1..Len(calls) |->
                            ToolMessage(calls[i].id, outs[i])]) :
           outs \in [1..Len(calls) -> ToolOutputs]}

\* ask_user_for_info once interrupt() has returned user_response
AskUserDelta(user_response) ==
    [messages |-> <<HumanMessage(user_response)>>,
     interruption_message |-> "",
     requirements_complete |-> FALSE,
     requirements |-> "None"]

InitGraph ==
    /\ pc = "idle"
    /\ out = <<>>
    /\ consumed = <<>>
    /\ marks = <<>>
    /\ outcome = "none"
    /\ InitThread
    /\ InitVercel
    /\ InitTravelVars
    /\ InitLoopVars

NewStream ==
    /\ pc' = "streaming"
    /\ out' = <<>>
    /\ consumed' = <<>>
    /\ marks' = <<>>
    /\ outcome' = "none"

\* the reference run executes the agent or tools node with the same result
\* as the run itself, if that is the node it is at
IdealStep(name, delta) ==
    LET entry == [node |-> name, delta |-> delta]
        merged == MergeDelta(ideal.state, delta)
    IN IF ideal.node = name
       THEN [ideal EXCEPT
               !.state = merged,
               !.node = IF name = "tools" THEN "requirements_agent"
                        ELSE RouteAfterAgent(merged),
               !.steps = Append(@, entry),
               !.real = Append(@, entry)]
       ELSE [ideal EXCEPT !.real = Append(@, entry)]

\* in the reference run interrupt() returns user_response at once
IdealAnswer(user_response) ==
    IF ideal.node = "ask_user_for_info"
    THEN [ideal EXCEPT
            !.state = MergeDelta(@, AskUserDelta(user_response)),
            !.node = "requirements_agent",
            !.resumed = 1]
    ELSE ideal

\* the agent runs again on resume instead of the interrupted node
ResumeNodeAgent == "requirements_agent"

\* the node a resumed run executes first: the one that was interrupted
ResumeNode == "ask_user_for_info"

\* a request with resume=false: the input is merged into the thread's state
\* and the graph is entered at START -> requirements_agent
StartRun ==
    /\ pc \in {"idle", "done"}
    /\ Len(state.messages) < MaxLog
    /\ \E message \in UserMessages :
          state' = MergeDelta(state,
                      [messages |-> <<HumanMessage(message)>>,
                       requirements_complete |-> FALSE,
                       interruption_message |-> "",
                       requirements |-> "None"])
    /\ node' = "requirements_agent"
    /\ status' = "running"
    /\ resume' = NoValue
    /\ ideal' = [NewIdeal EXCEPT !.state = state',
                                 !.node = "requirements_agent"]
    /\ NewStream
    /\ UNCHANGED xvars

\* a request with resume=true on a suspended thread: ask_user_for_info runs
\* again and its interrupt() returns the value
ResumeRun ==
    /\ pc \in {"idle", "done"}
    /\ status = "suspended"
    /\ Len(state.messages) < MaxLog
    /\ \E v \in ResumeValues : resume' = v
    /\ ideal' = IdealAnswer(resume')
    /\ node' = ResumeNode
    /\ status' = "running"
    /\ NewStream
    /\ UNCHANGED state
    /\ UNCHANGED xvars

CanStep == pc = "streaming" /\ Len(consumed) < MaxSteps

AgentStep ==
    /\ CanStep
    /\ node = "requirements_agent"
    /\ \E delta \in RequirementsAgentNode, mid \in MsgIds, uuids \in [1..2 -> Uuids] :
          /\ Len(state.messages) + Len(delta["messages"]) <= MaxLog
          /\ state' = MergeDelta(state, delta)
          /\ node' = RouteAfterAgent(state')
          /\ ideal' = IdealStep("requirements_agent", delta)
          /\ Emit(delta, mid, uuids)
    /\ UNCHANGED <<pc, outcome, status, resume>>
    /\ UNCHANGED xvars

ToolsStep ==
    /\ CanStep
    /\ node = "tools"
    /\ \E delta \in ToolNodeDeltas(state), mid \in MsgIds, uuids \in [1..2 -> Uuids] :
          /\ Len(state.messages) + Len(delta["messages"]) <= MaxLog
          /\ state' = MergeDelta(state, delta)
          /\ ideal' = IdealStep("tools", delta)
          /\ Emit(delta, mid, uuids)
    /\ node' = "requirements_agent"
    /\ UNCHANGED <<pc, outcome, status, resume>>
    /\ UNCHANGED xvars

\* ask_user_for_info reaches interrupt() with no resume value: the run halts
\* there, the node's delta is not merged, and the update is the interrupt
AskUserInterrupt ==
    /\ CanStep
    /\ node = "ask_user_for_info"
    /\ resume = NoValue
    /\ \E mid \in MsgIds, uuids \in [1..2 -> Uuids] :
          Emit(("__interrupt__" :> <<Interrupt(state.interruption_message)>>),
               mid, uuids)
    /\ node' = Halted
    /\ UNCHANGED <<pc, outcome, state, status, resume, ideal>>
    /\ UNCHANGED xvars

AskUserResume ==
    /\ CanStep
    /\ node = "ask_user_for_info"
    /\ resume # NoValue
    /\ \E mid \in MsgIds, uuids \in [1..2 -> Uuids] :
          LET delta == AskUserDelta(resume)
          IN /\ state' = MergeDelta(state, delta)
             /\ Emit(delta, mid, uuids)
    /\ resume' = NoValue
    /\ node' = "requirements_agent"
    /\ UNCHANGED <<pc, outcome, status, ideal>>
    /\ UNCHANGED xvars

\* the run is over (END reached or halted at the interrupt): astream is
\* exhausted and stream() leaves its loop
GraphFinish ==
    /\ pc = "streaming"
    /\ node \in {END, Halted}
    /\ out' = out \o CompletionEvents
    /\ pc' = "done"
    /\ outcome' = "completed"
    /\ status' = IF node = END THEN "completed" ELSE "suspended"
    /\ UNCHANGED <<consumed, marks, state, node, resume, ideal>>
    /\ UNCHANGED xvars

\* a node executor throws (the model call or the tool node fails)
NodeError ==
    /\ pc = "streaming"
    /\ node \in {"requirements_agent", "tools"}
    /\ \E msg \in ErrorMessages : out' = out \o ErrorEvents(msg)
    /\ pc' = "done"
    /\ outcome' = "error"
    /\ status' = "failed"
    /\ UNCHANGED <<consumed, marks, state, node, resume, ideal>>
    /\ UNCHANGED xvars

NextGraph ==
    \/ StartRun \/ ResumeRun
    \/ AgentStep \/ ToolsStep \/ AskUserInterrupt \/ AskUserResume
    \/ GraphFinish \/ NodeError

SpecGraph == InitGraph /\ [][NextGraph]_vars

----------------------------------------------------------------------------
(* vercel_stream.stream_langgraph_to_vercel, called once per request *)

MaxStreams == 2     \* calls of stream_langgraph_to_vercel

StreamModes == {"messages", "values", "updates"}

MessageIds == {"msg-a", "msg-b"}

StartEvent(message_id) == [type |-> "start", messageId |-> message_id]
FinishMetadata(interrupt_message) ==
    [type |-> "finish",
     messageMetadata |-> [interrupt |-> TRUE,
                          interruptMessage |-> interrupt_message]]

text_stream_id == "text-1"

\* what graph.astream may yield under each stream mode
MessageChunk(message) == [tuple |-> <<message, "metadata">>]

VercelEvents(stream_mode) ==
    IF stream_mode = "messages"
    THEN {MessageChunk(m) :
            m \in {AIMessage("hi", <<>>), AIMessage("", <<Call1>>),
                   ToolMessage("c1", "out"), HumanMessage(UserText)}}
    ELSE InterruptUpdates
         \cup {("messages" :> ms) : ms \in FieldMessageLists}
         \cup {("messages" :> ms) @@ f :
                  ms \in FieldMessageLists, f \in FieldSets}

\* lines 97-104: str() of the first interrupt object's value
VercelInterruptMessage(event) ==
    LET interrupt_value == event["__interrupt__"]
    IN IF interrupt_value # <<>>
       THEN IF "value" \in DOMAIN interrupt_value[1]
            THEN interrupt_value[1].value
            ELSE interrupt_value[1].repr
       ELSE "[]"

\* text-start (once per stream) and one text-delta
VercelText(delta) ==
    (IF vs.text_started THEN <<>> ELSE <<TextStart(text_stream_id)>>)
    \o <<TextDelta(text_stream_id, delta)>>

\* the content the loop body streams for a non-interrupt event, or ""
VercelContent(event) ==
    IF vs.stream_mode = "messages"
    THEN IF "tuple" \in DOMAIN event
         THEN event.tuple[1].content
         ELSE ""
    ELSE LET messages == Get(event, "messages", <<>>)
         IN IF messages = <<>> THEN ""
            ELSE LET last_message == messages[Len(messages)]
                 IN IF Truthy(last_message.content) /\ IsAI(last_message)
                    THEN last_message.content
                    ELSE ""

InitVercelSpec ==
    /\ pc = "idle"
    /\ out = <<>>
    /\ consumed = <<>>
    /\ marks = <<>>
    /\ outcome = "none"
    /\ InitThread
    /\ InitVercel
    /\ InitTravelVars
    /\ InitLoopVars

\* lines 76-86: a call starts
VercelStart ==
    /\ pc \in {"idle", "done"}
    /\ Len(textStarts) < MaxStreams
    /\ \E stream_mode \in StreamModes, message_id \in MessageIds :
          /\ vs' = [stream_mode |-> stream_mode, text_started |-> FALSE,
                    final_state |-> NoState, interrupted |-> FALSE,
                    interrupt_message |-> ""]
          /\ out' = <<StartEvent(message_id)>>
    /\ pc' = "streaming"
    /\ consumed' = <<>>
    /\ marks' = <<>>
    /\ outcome' = "none"
    /\ textStarts' = Append(textStarts, <<>>)
    /\ UNCHANGED <<gvars, tvars, lvars>>

VercelYield(event, events) ==
    /\ out' = out \o events
    /\ consumed' = Append(consumed, event)
    /\ marks' = Append(marks, Len(out'))
    /\ textStarts' =
          [textStarts EXCEPT ![Len(textStarts)] =
              @ \o SelectSeq([i \in 1..Len(events) |->
                                 IF events[i].type = "text-start"
                                 THEN events[i].id ELSE ""],
                             LAMBDA x : x # "")]

\* lines 92-119: an interrupt event ends the loop
VercelInterrupt ==
    /\ pc = "streaming"
    /\ Len(consumed) < MaxUpdates
    /\ \E event \in VercelEvents(vs.stream_mode) :
          /\ "__interrupt__" \in DOMAIN event
          /\ LET interrupt_message == VercelInterruptMessage(event)
             IN /\ VercelYield(event, VercelText(interrupt_message))
                /\ vs' = [vs EXCEPT !.interrupted = TRUE,
                                    !.interrupt_message = interrupt_message,
                                    !.text_started = TRUE,
                                    !.final_state = event]
    /\ pc' = "post"
    /\ UNCHANGED outcome
    /\ UNCHANGED <<gvars, tvars, lvars>>

\* lines 122-162: any other event
VercelEvent ==
    /\ pc = "streaming"
    /\ Len(consumed) < MaxUpdates
    /\ \E event \in VercelEvents(vs.stream_mode) :
          /\ "__interrupt__" \notin DOMAIN event
          /\ LET content == VercelContent(event)
             IN /\ VercelYield(event, IF Truthy(content)
                                      THEN VercelText(content) ELSE <<>>)
                /\ vs' = [vs EXCEPT
                            !.text_started = @ \/ Truthy(content),
                            !.final_state =
                                IF vs.stream_mode = "messages"
                                THEN @ ELSE event]
    /\ UNCHANGED <<pc, outcome>>
    /\ UNCHANGED <<gvars, tvars, lvars>>

\* lines 165-189
VercelDataEvents ==
    IF ~vs.interrupted /\ vs.final_state # NoState
    THEN DataEvents(vs.final_state)
    ELSE <<>>

\* lines 164-209: after the loop
VercelFinish ==
    /\ pc \in {"streaming", "post"}
    /\ out' = out
              \o (IF vs.text_started
                  THEN <<TextEnd(text_stream_id)>> ELSE <<>>)
              \o VercelDataEvents
              \o <<IF vs.interrupted
                   THEN FinishMetadata(vs.interrupt_message)
                   ELSE Finish>>
              \o <<Done>>
    /\ pc' = "done"
    /\ outcome' = IF vs.interrupted THEN "suspended" ELSE "completed"
    /\ UNCHANGED <<consumed, marks, vs, textStarts>>
    /\ UNCHANGED <<gvars, tvars, lvars>>

\* lines 211-217: graph.astream raises
VercelError ==
    /\ pc = "streaming"
    /\ \E msg \in ErrorMessages : out' = out \o <<ErrorEvent(msg), Done>>
    /\ pc' = "done"
    /\ outcome' = "error"
    /\ UNCHANGED <<consumed, marks, vs, textStarts>>
    /\ UNCHANGED <<gvars, tvars, lvars>>

NextVercel ==
    VercelStart \/ VercelInterrupt \/ VercelEvent \/ VercelFinish
    \/ VercelError

SpecVercel == InitVercelSpec /\ [][NextVercel]_vars

----------------------------------------------------------------------------
(* The travel system: travel_system_graph over its own checkpointer, with
   the requirements graph invoked from requirements_subgraph_node on the
   requirements graph's checkpointer *)

MaxRequests == 3    \* requests served in one behaviour
MaxToolRounds == 1  \* tool rounds in one nested run
MaxSubLog == 8      \* entries in the message log of a nested thread

\* add_messages: an entry whose id is already in the log replaces that
\* entry (same content here), any other entry is appended
MessageIdsOf(log) ==
    {log[i].id : i \in {j \in 1..Len(log) : "id" \in DOMAIN log[j]}}

AddMessages(log, new) ==
    log \o SelectSeq(new, LAMBDA m : ~("id" \in DOMAIN m
                                       /\ m.id \in MessageIdsOf(log)))

\* the answers of the model in a nested run: a question, the completed
\* requirements, or one call of the flight tool
NestedAgentDeltas ==
    {d \in RequirementsAgentNode :
        d["messages"] # <<>> /\ HasToolCalls(d["messages"][1])
            => d["messages"][1] = AIMessage("", <<Call1>>)}

\* requirements_graph run from requirements_agent until END or interrupt():
\* the checkpoints it may end with
RECURSIVE RunAgent(_, _)
RunAgent(s, rounds) ==
    UNION {LET s2 == MergeDelta(s, d)
               next == RouteAfterAgent(s2)
           IN IF next = "tools"
              THEN IF rounds = 0 THEN {}
                   ELSE UNION {RunAgent(MergeDelta(s2, td), rounds - 1) :
                                  td \in ToolNodeDeltas(s2)}
              ELSE {[state |-> s2, next |-> next]}
           : d \in NestedAgentDeltas}

Bounded(subs) == {sub \in subs : Len(sub.state.messages) <= MaxSubLog}

\* compiled_graph.invoke(state, config): the input is merged into the
\* thread's checkpoint and the graph runs from START
InvokeFresh(sub, input) ==
    Bounded(RunAgent([messages |-> AddMessages(sub.state.messages,
                                               input.messages),
                      requirements_complete |-> input.requirements_complete,
                      interruption_message |-> input.interruption_message,
                      requirements |-> input.requirements],
                     MaxToolRounds))

\* compiled_graph.invoke(Command(resume=v), config): ask_user_for_info runs
\* again with interrupt() returning v; with no interrupt pending no node runs
InvokeResume(sub, v) ==
    IF sub.next = "ask_user_for_info"
    THEN Bounded(RunAgent(MergeDelta(sub.state, AskUserDelta(v)),
                          MaxToolRounds))
    ELSE {sub}

\* "__interrupt__" in subgraph_result, and the message taken from it
SubInterrupted(sub) == sub.next = "ask_user_for_info"
SubInterruptMessage(sub) == sub.state.interruption_message

\* the parent's reducers: new log entries get an id and are appended, the
\* other keys are overwritten
TravelMerge(s, delta, thread_id) ==
    [k \in DOMAIN s |->
        IF k \notin DOMAIN delta THEN s[k]
        ELSE IF k = "messages"
             THEN s[k] \o [i \in 1..Len(delta[k]) |->
                              delta[k][i]
                              @@ [id |-> <<thread_id, Len(s[k]) + i>>]]
             ELSE delta[k]]

\* the summaries the three nodes put in the log
RequirementsSummary(requirements) ==
    IF Truthy(requirements)
    THEN "Perfect! I've gathered your travel requirements for a trip"
    ELSE "I've gathered your travel requirements."
PlannerSummary == "Great! I've created an itinerary for you."
BookerSummary == "Perfect! I've completed your bookings."

NamedAIMessage(content, name) ==
    AIMessage(content, <<>>) @@ [name |-> name]

\* lines 99-116: what requirements_subgraph_node returns
RequirementsNodeDelta(subgraph_result) ==
    LET requirements == subgraph_result.state.requirements
    IN [messages |-> <<NamedAIMessage(RequirementsSummary(requirements),
                                      "requirements")>>,
        requirements |-> requirements,
        itinerary |-> "None",
        bookings |-> "None"]

\* lines 47-52: the input of the nested run
SubgraphState(parent_state) ==
    [messages |-> parent_state.messages,
     requirements_complete |-> FALSE,
     interruption_message |-> "",
     requirements |-> parent_state.requirements]

\* One execution of requirements_subgraph_node on the nested checkpoint sub,
\* where resumes are the values the parent's interrupt() calls return, in
\* call order. Each outcome is the nested checkpoint left behind, the calls
\* made, and either the interrupt raised or the delta returned.
Raise(sub, calls, message) ==
    [sub |-> sub, calls |-> Append(calls, [op |-> "interrupt",
                                           value |-> message]),
     raised |-> TRUE, value |-> message]
Return(sub, calls) ==
    [sub |-> sub, calls |-> calls, raised |-> FALSE,
     delta |-> RequirementsNodeDelta(sub)]

RequirementsSubgraphNode(parent_state, resumes, sub) ==
    UNION {
      LET calls1 == <<[op |-> "invoke"]>>
      IN IF ~SubInterrupted(first)
         THEN {Return(first, calls1)}
         ELSE IF Len(resumes) = 0
              THEN {Raise(first, calls1, SubInterruptMessage(first))}
              ELSE LET user_response == resumes[1]
                       calls2 == calls1 \o <<[op |-> "interrupt",
                                              value |-> SubInterruptMessage(first)],
                                             [op |-> "resume",
                                              value |-> user_response]>>
                   IN UNION {
                        IF ~SubInterrupted(second)
                        THEN {Return(second, calls2)}
                        ELSE IF Len(resumes) = 1
                             THEN {Raise(second, calls2,
                                         SubInterruptMessage(second))}
                             ELSE {Return(second,
                                     Append(calls2,
                                       [op |-> "interrupt",
                                        value |-> SubInterruptMessage(second)]))}
                        : second \in InvokeResume(first, user_response)}
      : first \in InvokeFresh(sub, SubgraphState(parent_state))}

\* planner_agent and booker_agent are black boxes: what their structured
\* responses hold
Itineraries == {"I1"}
Bookings == {"B1"}

PlannerAgentNode(parent_state) ==
    {[messages |-> <<NamedAIMessage(PlannerSummary, "planner")>>,
      requirements |-> parent_state.requirements,
      itinerary |-> itinerary,
      bookings |-> "None"] : itinerary \in Itineraries}

BookerAgentNode(parent_state) ==
    {[messages |-> <<NamedAIMessage(BookerSummary, "booker")>>,
      requirements |-> parent_state.requirements,
      itinerary |-> parent_state.itinerary,
      bookings |-> bookings] : bookings \in Bookings}

InitTravel ==
    /\ pc = "idle"
    /\ out = <<>>
    /\ consumed = <<>>
    /\ marks = <<>>
    /\ outcome = "none"
    /\ InitThread
    /\ InitVercel
    /\ InitTravelVars
    /\ InitLoopVars

\* no request is being served
Quiet == \A j \in Slots : run[j].phase # "streaming"

TravelMsgId == "msg_1"
TravelUuids == [i \in 1..2 |-> "u1"]

\* the events the adapter yields for one update of the travel graph
TravelEmit(chunk) == HandleNodeUpdate(chunk, TravelMsgId, TravelUuids)

\* the input names only the log: the three fields keep their old values
TravelInitialStateLogOnly(message) ==
    [messages |-> <<HumanMessage(message)>>]

\* the TravelSystemState that stream_travel_system_chat builds when resume
\* is false
TravelInitialState(message) ==
    [messages |-> <<HumanMessage(message)>>,
     requirements |-> "None",
     itinerary |-> "None",
     bookings |-> "None"]

\* stream_travel_system_chat with resume=false: the input is merged into the
\* thread's checkpoint and the graph is entered at START
TravelExecute(i) ==
    /\ run[i].phase # "streaming"
    /\ requests < MaxRequests
    /\ \E thread_id \in TravelThreads, message \in UserMessages :
          /\ Len(tstore[thread_id].state.messages) < MaxLog
          /\ LET initial_state ==
                     TravelMerge(tstore[thread_id].state,
                                 TravelInitialState(message), thread_id)
             IN /\ run' = [run EXCEPT ![i] =
                             [IdleRun EXCEPT !.phase = "streaming",
                                             !.thread = thread_id,
                                             !.state = initial_state,
                                             !.node = "requirements_subgraph"]]
                /\ tstore' = [tstore EXCEPT ![thread_id] =
                                [state |-> initial_state,
                                 next |-> "requirements_subgraph",
                                 pending |-> FALSE, resumes |-> <<>>]]
    /\ requests' = requests + 1
    /\ UNCHANGED <<rstore, writers>>
    /\ UNCHANGED <<avars, gvars, vvars, lvars>>

\* stream_travel_system_chat with resume=true: Command(resume=message) is
\* built whatever the thread's status; with an interrupt pending the
\* interrupted node runs again, otherwise the engine has nothing to run
TravelResume(i) ==
    /\ run[i].phase # "streaming"
    /\ requests < MaxRequests
    /\ \E thread_id \in TravelThreads, message \in ResumeValues :
          LET cp == tstore[thread_id]
          IN IF cp.pending
             THEN run' = [run EXCEPT ![i] =
                               [IdleRun EXCEPT
                                   !.phase = "streaming",
                                   !.thread = thread_id,
                                   !.resume = TRUE,
                                   !.suspended = TRUE,
                                   !.state = cp.state,
                                   !.node = cp.next,
                                   !.resumes = Append(cp.resumes, message)]]
             ELSE run' = [run EXCEPT ![i] =
                               [IdleRun EXCEPT !.phase = "streaming",
                                               !.thread = thread_id,
                                               !.resume = TRUE,
                                               !.state = cp.state,
                                               !.node = END]]
    /\ UNCHANGED tstore
    /\ requests' = requests + 1
    /\ UNCHANGED <<rstore, writers>>
    /\ UNCHANGED <<avars, gvars, vvars, lvars>>

\* the summary entry is merged although the node raised
InterruptedCheckpointMerged(parent_state, resumes) ==
    [state |-> [parent_state EXCEPT
                   !.messages = Append(@, NamedAIMessage(
                                   RequirementsSummary("None"),
                                   "requirements"))],
     next |-> "requirements_subgraph", pending |-> TRUE,
     resumes |-> resumes]

\* the checkpoint of a parent run that halts in requirements_subgraph_node:
\* the state the node was given, and the resume values its interrupt() calls
\* have consumed so far
InterruptedCheckpoint(parent_state, resumes) ==
    [state |-> parent_state, next |-> "requirements_subgraph",
     pending |-> TRUE, resumes |-> resumes]

\* requirements_subgraph_node runs: it raises or returns
RequirementsSubgraphStep(i) ==
    /\ run[i].phase = "streaming"
    /\ run[i].node = "requirements_subgraph"
    /\ LET thread_id == run[i].thread
           subgraph_thread_id == SubThread(thread_id)
       IN /\ \E o \in RequirementsSubgraphNode(run[i].state, run[i].resumes,
                                               rstore[subgraph_thread_id]) :
               /\ rstore' = [rstore EXCEPT ![subgraph_thread_id] = o.sub]
               /\ IF o.raised
                  THEN /\ run' = [run EXCEPT
                                    ![i].node = Halted,
                                    ![i].calls = o.calls,
                                    ![i].before = rstore[subgraph_thread_id],
                                    ![i].out = @ \o TravelEmit(
                                        "__interrupt__" :>
                                            <<Interrupt(o.value)>>)]
                       /\ tstore' = [tstore EXCEPT ![thread_id] =
                                        InterruptedCheckpoint(run[i].state,
                                                              run[i].resumes)]
                  ELSE LET state2 == TravelMerge(run[i].state, o.delta,
                                                 thread_id)
                       IN /\ Len(state2.messages) <= MaxLog
                          /\ run' = [run EXCEPT
                                       ![i].node = "planner",
                                       ![i].state = state2,
                                       ![i].calls = o.calls,
                                       ![i].before = rstore[subgraph_thread_id],
                                       ![i].out = @ \o TravelEmit(o.delta)]
                          /\ tstore' = [tstore EXCEPT ![thread_id] =
                                           [state |-> state2,
                                            next |-> "planner",
                                            pending |-> FALSE,
                                            resumes |-> <<>>]]
          /\ writers' = [writers EXCEPT ![subgraph_thread_id] =
                            @ \cup {<<"travel", thread_id>>}]
    /\ UNCHANGED requests
    /\ UNCHANGED <<avars, gvars, vvars, lvars>>

\* planner_agent_node, then booker_agent_node
AgentNodeStep(i, name, deltas, next) ==
    /\ run[i].phase = "streaming"
    /\ run[i].node = name
    /\ \E delta \in deltas :
          LET state2 == TravelMerge(run[i].state, delta, run[i].thread)
          IN /\ Len(state2.messages) <= MaxLog
             /\ run' = [run EXCEPT ![i].node = next,
                                   ![i].state = state2,
                                   ![i].out = @ \o TravelEmit(delta)]
             /\ tstore' = [tstore EXCEPT ![run[i].thread] =
                              [state |-> state2, next |-> next,
                               pending |-> FALSE, resumes |-> <<>>]]
    /\ UNCHANGED <<rstore, writers, requests>>
    /\ UNCHANGED <<avars, gvars, vvars, lvars>>

PlannerStep(i) ==
    AgentNodeStep(i, "planner", PlannerAgentNode(run[i].state), "booker")

\* booker runs in the place of planner
BookerStepEarly(i) ==
    AgentNodeStep(i, "planner", BookerAgentNode(run[i].state), END)

BookerStep(i) ==
    AgentNodeStep(i, "booker", BookerAgentNode(run[i].state), END)

\* graph.astream is exhausted: the adapter closes the stream
TravelFinish(i) ==
    /\ run[i].phase = "streaming"
    /\ run[i].node \in {END, Halted}
    /\ run' = [run EXCEPT ![i].phase = "done",
                          ![i].out = @ \o CompletionEvents]
    /\ UNCHANGED <<tstore, rstore, writers, requests>>
    /\ UNCHANGED <<avars, gvars, vvars, lvars>>

\* a node raises (the model call fails): the adapter's except branch
TravelNodeError(i) ==
    /\ run[i].phase = "streaming"
    /\ run[i].node \in {"requirements_subgraph", "planner", "booker"}
    /\ \E msg \in ErrorMessages :
          run' = [run EXCEPT ![i].phase = "done",
                             ![i].node = "failed",
                             ![i].out = @ \o ErrorEvents(msg)]
    /\ UNCHANGED <<tstore, rstore, writers, requests>>
    /\ UNCHANGED <<avars, gvars, vvars, lvars>>

\* one request at a time
NextTravel ==
    \E i \in {1} :
        \/ Quiet /\ TravelExecute(i)
        \/ Quiet /\ TravelResume(i)
        \/ RequirementsSubgraphStep(i)
        \/ PlannerStep(i)
        \/ BookerStep(i)
        \/ TravelFinish(i)
        \/ TravelNodeError(i)

SpecTravel == InitTravel /\ [][NextTravel]_vars

\* stream_requirements_chat: the run it makes on the requirements graph under
\* the caller's thread id (its event stream is the subject of SpecVercel)
ChatInput(message) ==
    [messages |-> <<HumanMessage(message)>>,
     requirements_complete |-> FALSE,
     interruption_message |-> "",
     requirements |-> "None"]

RequirementsChat ==
    /\ requests < MaxRequests
    /\ \E thread_id \in ChatThreads, resume_flag \in BOOLEAN :
          \E sub \in IF resume_flag
                     THEN UNION {InvokeResume(rstore[thread_id], v) :
                                    v \in ResumeValues}
                     ELSE UNION {InvokeFresh(rstore[thread_id], ChatInput(m)) :
                                    m \in UserMessages} :
             /\ rstore' = [rstore EXCEPT ![thread_id] = sub]
             /\ writers' = [writers EXCEPT ![thread_id] =
                               IF sub = rstore[thread_id] THEN @
                               ELSE @ \cup {<<"chat", thread_id>>}]
    /\ requests' = requests + 1
    /\ UNCHANGED <<tstore, run>>
    /\ UNCHANGED <<avars, gvars, vvars, lvars>>

\* the server as it is: a request is accepted whatever else is in progress
NextApi ==
    \/ \E i \in Slots :
          \/ TravelExecute(i)
          \/ TravelResume(i)
          \/ RequirementsSubgraphStep(i)
          \/ PlannerStep(i)
          \/ BookerStep(i)
          \/ TravelFinish(i)
          \/ TravelNodeError(i)
    \/ RequirementsChat

SpecApi == InitTravel /\ [][NextApi]_vars

----------------------------------------------------------------------------
(* A client that disconnects from the stream of travel_system_chat_streaming.
   The nodes are plain functions: graph.astream runs each in a worker thread
   and awaits it. The server cancels the task that iterates the response
   body; the cancellation reaches graph.astream, which starts no further
   node, but a function already running in its thread runs to its end. *)

TravelNodes == {"requirements_subgraph", "planner", "booker"}

\* the engine hands the next node to a worker thread
NodeStart(i) ==
    /\ run[i].phase = "streaming"
    /\ ~run[i].disconnected
    /\ run[i].node \in TravelNodes
    /\ run[i].started # run[i].node
    /\ run' = [run EXCEPT ![i].started = run[i].node]
    /\ UNCHANGED <<tstore, rstore, writers, requests>>
    /\ UNCHANGED <<avars, gvars, vvars, lvars>>

\* the node that was started returns or raises, and the adapter streams it
NodeReturn(i) ==
    /\ ~run[i].disconnected
    /\ run[i].started = run[i].node
    /\ \/ RequirementsSubgraphStep(i)
       \/ PlannerStep(i)
       \/ BookerStep(i)
       \/ TravelNodeError(i)

\* the client goes away while the response is being streamed
ClientDisconnect(i) ==
    /\ run[i].phase = "streaming"
    /\ ~run[i].disconnected
    /\ run' = [run EXCEPT ![i].disconnected = TRUE]
    /\ UNCHANGED <<tstore, rstore, writers, requests>>
    /\ UNCHANGED <<avars, gvars, vvars, lvars>>

\* the cancelled run ends: nothing more is streamed or checkpointed on the
\* parent thread. If requirements_subgraph_node was running, its thread goes
\* on through requirements_graph.invoke, whose nodes run and checkpoint on
\* the nested thread; what the function returns or raises is discarded.
CancelledRunEnds(i) ==
    /\ run[i].phase = "streaming"
    /\ run[i].disconnected
    /\ LET subgraph_thread_id == SubThread(run[i].thread)
       IN IF run[i].started = run[i].node
             /\ run[i].node = "requirements_subgraph"
          THEN /\ \E o \in RequirementsSubgraphNode(
                              run[i].state, run[i].resumes,
                              rstore[subgraph_thread_id]) :
                     rstore' = [rstore EXCEPT ![subgraph_thread_id] = o.sub]
               /\ writers' = [writers EXCEPT ![subgraph_thread_id] =
                                 @ \cup {<<"travel", run[i].thread>>}]
          ELSE UNCHANGED <<rstore, writers>>
    /\ run' = [run EXCEPT ![i].phase = "cancelled"]
    /\ UNCHANGED <<tstore, requests>>
    /\ UNCHANGED <<avars, gvars, vvars, lvars>>

NextCancel ==
    \E i \in {1} :
        \/ Quiet /\ TravelExecute(i)
        \/ Quiet /\ TravelResume(i)
        \/ NodeStart(i)
        \/ NodeReturn(i)
        \/ ~run[i].disconnected /\ TravelFinish(i)
        \/ ClientDisconnect(i)
        \/ CancelledRunEnds(i)

SpecCancel == InitTravel /\ [][NextCancel]_vars

----------------------------------------------------------------------------
(* The agent/tools loop of requirements_graph, planner_graph and
   booker_graph, run without an output stream *)

MaxLoopLog == 6     \* entries in the message log of a planner/booker thread

LoopGraphs == {"requirements", "planner", "booker"}

LoopCall(g, id) == [id |-> id, name |-> LoopToolName(g), args |-> "query"]

\* planner_agent_node / booker_agent_node: the model's tool-calling answer
\* as it is, or the structured result
LoopAgentNode(g) ==
    IF g = "requirements"
    THEN {d \in RequirementsAgentNode :
             d["messages"] # <<>> /\ HasToolCalls(d["messages"][1])
                 => d["messages"][1].content = ""}
    ELSE {("messages" :> <<AIMessage("", calls)>>) :
             calls \in {<<LoopCall(g, "c1")>>,
                        <<LoopCall(g, "c1"), LoopCall(g, "c2")>>}}
         \cup {("messages" :> <<>>) @@ (ResultKey(g) :> "X1")
                   @@ (CompleteKey(g) :> TRUE)}

\* a router that ends the run whatever the last entry carries
RouteAfterLoopAgentEnd(g, s) == END

\* route_after_agent / route_after_planner / route_after_booker
RouteAfterLoopAgent(g, s) ==
    IF g = "requirements" THEN RouteAfterAgent(s)
    ELSE IF s["messages"] # <<>>
            /\ HasToolCalls(s["messages"][Len(s["messages"])])
         THEN "tools"
         ELSE END

\* web_search returns the result text, or "Search error: ..." when the
\* search raises
LoopToolOutputs == {"results", "Search error: boom"}

\* a tools node that answers only the first pending call
LoopToolNodeFirstOnly(g, s) ==
    LET calls == s["messages"][Len(s["messages"])].tool_calls
    IN {("messages" :> <<ToolMessage(calls[1].id, o)>>) :
           o \in LoopToolOutputs}

\* ToolNode: one ToolMessage per call of the last entry, in call order
LoopToolNode(g, s) ==
    IF g = "requirements" THEN ToolNodeDeltas(s)
    ELSE LET calls == s["messages"][Len(s["messages"])].tool_calls
         IN {("messages" :> [i \in 1..Len(calls) |->
                                 ToolMessage(calls[i].id, outs[i])]) :
                outs \in [1..Len(calls) -> LoopToolOutputs]}

\* the tool calls of the last entry, which the tools node will answer
PendingCalls(s) ==
    IF s["messages"] # <<>>
       /\ HasToolCalls(s["messages"][Len(s["messages"])])
    THEN Len(s["messages"][Len(s["messages"])].tool_calls)
    ELSE 0

InitLoop ==
    /\ pc = "idle"
    /\ out = <<>>
    /\ consumed = <<>>
    /\ marks = <<>>
    /\ outcome = "none"
    /\ InitThread
    /\ InitVercel
    /\ InitTravelVars
    /\ \E g \in LoopGraphs : loop = NewLoop(g)

LoopEntry(name, delta) == [node |-> name, delta |-> delta]

\* the input of a run: for the requirements graph the state the callers
\* build, for the other two a user entry
LoopInput(g, message) ==
    IF g = "requirements" THEN ChatInput(message)
    ELSE ("messages" :> <<HumanMessage(message)>>)

\* compiled_graph.invoke with an input on a thread in any status: the input
\* is merged into the checkpointed state and the graph is entered at START
LoopInvoke ==
    /\ loop.node \in {"START", END, "failed", "ask_user_for_info"}
    /\ Len(loop.state["messages"]) < MaxLoopLog
    /\ \E message \in UserMessages :
          loop' = [loop EXCEPT
                     !.state = MergeDelta(@, LoopInput(loop.graph, message)),
                     !.node = AgentOf(loop.graph),
                     !.trace = <<>>]
    /\ UNCHANGED <<avars, gvars, vvars, tvars>>

\* compiled_graph.invoke(Command(resume=v)) on a thread halted in
\* ask_user_for_info: the node returns the value as a user entry
LoopResume ==
    /\ loop.node = "ask_user_for_info"
    /\ Len(loop.state["messages"]) < MaxLoopLog
    /\ \E v \in ResumeValues :
          loop' = [loop EXCEPT
                     !.state = MergeDelta(@, AskUserDelta(v)),
                     !.node = AgentOf(loop.graph)]
    /\ UNCHANGED <<avars, gvars, vvars, tvars>>

LoopAgentStep ==
    /\ loop.node = AgentOf(loop.graph)
    /\ \E delta \in LoopAgentNode(loop.graph) :
          LET s2 == MergeDelta(loop.state, delta)
          IN /\ Len(s2["messages"]) + PendingCalls(s2) <= MaxLoopLog
             /\ loop' = [loop EXCEPT
                           !.state = s2,
                           !.node = RouteAfterLoopAgent(loop.graph, s2),
                           !.trace = Append(@, LoopEntry(loop.node, delta))]
    /\ UNCHANGED <<avars, gvars, vvars, tvars>>

LoopToolsStep ==
    /\ loop.node = "tools"
    /\ \E delta \in LoopToolNode(loop.graph, loop.state) :
          /\ loop' = [loop EXCEPT
                        !.state = MergeDelta(@, delta),
                        !.node = AgentOf(loop.graph),
                        !.trace = Append(@, LoopEntry("tools", delta))]
    /\ UNCHANGED <<avars, gvars, vvars, tvars>>

\* the model call of the agent node raises
LoopAgentError ==
    /\ loop.node = AgentOf(loop.graph)
    /\ loop' = [loop EXCEPT !.node = "failed"]
    /\ UNCHANGED <<avars, gvars, vvars, tvars>>

NextLoopRun == LoopInvoke \/ LoopResume \/ LoopAgentStep \/ LoopToolsStep

NextLoop == NextLoopRun \/ LoopAgentError

SpecLoop == InitLoop /\ [][NextLoop]_vars

\* the agent node returns an entry without tool calls
LoopAgentFinal == LoopAgentStep /\ loop'.node # "tools"

\* runs in which no node raises, the engine keeps executing the node that is
\* next, and the agent does not return tool calls forever
SpecLoopFair ==
    /\ InitLoop
    /\ [][NextLoopRun]_vars
    /\ WF_vars(LoopToolsStep)
    /\ SF_vars(LoopAgentFinal)

----------------------------------------------------------------------------
(* Properties *)

\* the events yielded while update k was handled
EventsOf(k) == SubSeq(out, (IF k = 1 THEN 0 ELSE marks[k - 1]) + 1, marks[k])

IsInterruptUpdate(u) == "__interrupt__" \in DOMAIN u
HasEntries(u) ==
    ~IsInterruptUpdate(u) /\ "messages" \in DOMAIN u /\ u["messages"] # <<>>
\* the most recently appended entry of an update that has entries
LastEntry(u) == u["messages"][Len(u["messages"])]

Positions(ev, types) == {i \in 1..Len(ev) : ev[i].type \in types}

NoInterruptConsumed ==
    \A k \in 1..Len(consumed) : ~IsInterruptUpdate(consumed[k])

\* C1: the first element of every stream, emitted before any update is
\* consumed, is a start event carrying a message id.
C1_StartEventFirst ==
    (out # <<>> \/ consumed # <<>> \/ pc = "done") =>
        /\ out # <<>>
        /\ out[1].type = "start"
        /\ "messageId" \in DOMAIN out[1]

\* C2: an update that signals a suspension (with payload text) yields
\* text-start, text-delta (delta = payload), text-end under one id and then
\* finish with finishReason = "interrupt", and no update that arrives after it
\* in the same call is translated into any wire event.
C2_SuspensionStopsConsuming ==
    \A k \in 1..Len(consumed) :
        IsInterruptUpdate(consumed[k]) =>
            /\ Truthy(InterruptMessage(consumed[k])) =>
                  \E id \in MsgIds :
                      EventsOf(k) = TextBlock(id, InterruptMessage(consumed[k]))
                                    \o <<FinishInterrupt>>
            /\ \A j \in (k + 1)..Len(consumed) : EventsOf(j) = <<>>

\* C3: when the update sequence ends without error and without suspension,
\* the last two elements of the stream are a finish event with no
\* finishReason and then the [DONE] sentinel.
C3_FinishThenDone ==
    (pc = "done" /\ outcome = "completed" /\ NoInterruptConsumed) =>
        /\ Len(out) >= 2
        /\ out[Len(out) - 1] = [type |-> "finish"]
        /\ out[Len(out)] = Done
        /\ \A i \in 1..(Len(out) - 2) : out[i].type \notin {"finish", "[DONE]"}

C3_Witness ==
    /\ pc = "done" /\ outcome = "completed" /\ NoInterruptConsumed
    /\ Len(consumed) = 2
    /\ Len(out) > 2

\* C4: when the engine raises, the stream ends with an error event carrying
\* the error message followed by the [DONE] sentinel as its final element.
C4_ErrorThenDone ==
    outcome = "error" =>
        /\ Len(out) >= 2
        /\ out[Len(out) - 1].type = "error"
        /\ out[Len(out) - 1].error \in ErrorMessages
        /\ out[Len(out)] = Done

\* C5: if a node executor throws, the stream contains exactly one error
\* event, and no text-*, tool-*, data-* or finish event follows it.
C5_OneErrorNothingAfter ==
    /\ outcome = "error" => Cardinality(Positions(out, {"error"})) = 1
    /\ outcome # "error" => Positions(out, {"error"}) = {}
    /\ \A i \in Positions(out, {"error"}) :
          \A j \in (i + 1)..Len(out) :
              out[j].type \notin TextTypes \cup ToolTypes \cup DataTypes
                                 \cup {"finish"}

C5_Witness ==
    /\ outcome = "error"
    /\ Len(consumed) = 2
    /\ Len(out) > 1
    /\ out[Len(out)].type = "error"

\* C6: every tool-output-available event is preceded in its stream by a
\* tool-input-available event with the same toolCallId.
C6_InputBeforeOutput ==
    \A j \in Positions(out, {"tool-output-available"}) :
        \E i \in 1..(j - 1) :
            /\ out[i].type = "tool-input-available"
            /\ out[i].toolCallId = out[j].toolCallId

C6_Witness ==
    \E j \in Positions(out, {"tool-output-available"}) :
        /\ out[j].toolCallId = "c2"
        /\ status = "running"
        /\ Len(consumed) >= 2
        /\ HasEntries(consumed[Len(consumed)])
        /\ Len(consumed[Len(consumed)]["messages"]) = 2

\* C7: for an update whose last entry is an agent entry with tool calls, the
\* adapter emits, for each call in declared order, one tool-input-start
\* immediately followed by one tool-input-available with the same toolCallId
\* and toolName (and the call's arguments as input), and no other tool-input
\* event.
C7_ToolInputPairs ==
    \A k \in 1..Len(consumed) :
        (HasEntries(consumed[k]) /\ IsAI(LastEntry(consumed[k]))
            /\ LastEntry(consumed[k]).tool_calls # <<>>) =>
        LET calls == LastEntry(consumed[k]).tool_calls
            ev == EventsOf(k)
        IN /\ Len(ev) >= 2 * Len(calls)
           /\ Positions(ev, ToolTypes) = 1..(2 * Len(calls))
           /\ \A i \in 1..Len(calls) :
                 /\ ev[2 * i - 1].type = "tool-input-start"
                 /\ ev[2 * i].type = "tool-input-available"
                 /\ ev[2 * i].toolCallId = ev[2 * i - 1].toolCallId
                 /\ ev[2 * i].toolName = ev[2 * i - 1].toolName
                 /\ "id" \in DOMAIN calls[i] =>
                        ev[2 * i].toolCallId = calls[i].id
                 /\ "name" \in DOMAIN calls[i] =>
                        ev[2 * i].toolName = calls[i].name
                 /\ ev[2 * i].input = calls[i].args

C7_Witness ==
    \E k \in 1..Len(consumed) :
        /\ HasEntries(consumed[k])
        /\ LastEntry(consumed[k]) = AIMessage("", <<Call1, Call2>>)
        /\ Len(EventsOf(k)) = 4
        /\ pc = "done"

\* C8: for an update whose last entry is a tool-result entry, the adapter
\* emits exactly one tool-output-available event, carrying the entry's call
\* id and output, and no text or tool-input event.
C8_ToolResultOutput ==
    \A k \in 1..Len(consumed) :
        (HasEntries(consumed[k]) /\ IsTool(LastEntry(consumed[k]))) =>
        LET ev == EventsOf(k)
            outs == Positions(ev, {"tool-output-available"})
        IN /\ Cardinality(outs) = 1
           /\ \A i \in outs :
                 /\ ev[i].toolCallId = LastEntry(consumed[k]).tool_call_id
                 /\ ev[i].output = LastEntry(consumed[k]).content
           /\ Positions(ev, TextTypes \cup ToolInputTypes) = {}

C8_Witness ==
    \E k \in 1..Len(consumed) :
        /\ HasEntries(consumed[k])
        /\ Len(consumed[k]["messages"]) = 2
        /\ IsTool(LastEntry(consumed[k]))
        /\ EventsOf(k) = <<ToolOutputAvailable("c1", "out")>>

\* some text block (text-start, one text-delta with the full text, text-end,
\* under one id) among the events ev
IsTextBlockAt(ev, i, text) ==
    /\ i + 2 <= Len(ev)
    /\ \E id \in MsgIds : SubSeq(ev, i, i + 2) = TextBlock(id, text)

OneTextBlock(ev, text) ==
    /\ Cardinality(Positions(ev, TextTypes)) = 3
    /\ \E i \in 1..Len(ev) : IsTextBlockAt(ev, i, text)

\* C9 as stated: for a non-suspension update a text block is emitted exactly
\* when the last entry is an agent entry with non-empty text and no pending
\* tool calls; an agent entry that carries tool calls produces no text block.
\* (Text counts as empty here when the code's test counts it so: "" and
\* whitespace-only text.)
C9_TextBlockIffNoToolCalls ==
    \A k \in 1..Len(consumed) :
        ~IsInterruptUpdate(consumed[k]) =>
        LET u == consumed[k]
            ev == EventsOf(k)
            expected == /\ HasEntries(u)
                        /\ IsAI(LastEntry(u))
                        /\ LastEntry(u).content \notin {"", " "}
                        /\ LastEntry(u).tool_calls = <<>>
        IN IF expected
           THEN OneTextBlock(ev, LastEntry(u).content)
           ELSE Positions(ev, TextTypes) = {}

\* C9 amended: for a non-suspension update a text block (text-start, exactly
\* one text-delta with the full text, text-end, under one id) is emitted
\* exactly when the last entry is an agent entry whose text is neither empty
\* nor whitespace-only, whether or not the entry carries tool calls; the
\* block follows the entry's tool-input events.
C9_TextBlockIffText ==
    \A k \in 1..Len(consumed) :
        ~IsInterruptUpdate(consumed[k]) =>
        LET u == consumed[k]
            ev == EventsOf(k)
            expected == /\ HasEntries(u)
                        /\ IsAI(LastEntry(u))
                        /\ LastEntry(u).content \notin {"", " "}
        IN IF expected
           THEN /\ OneTextBlock(ev, LastEntry(u).content)
                /\ IsTextBlockAt(ev, 2 * Len(LastEntry(u).tool_calls) + 1,
                                 LastEntry(u).content)
           ELSE Positions(ev, TextTypes) = {}

C9_Witness ==
    \E k \in 1..Len(consumed) :
        /\ HasEntries(consumed[k])
        /\ LastEntry(consumed[k]) = AIMessage("hi", <<Call1>>)
        /\ Len(EventsOf(k)) = 5
        /\ IsTextBlockAt(EventsOf(k), 3, "hi")

\* C10: an update whose last entry is a user entry yields no text-* and no
\* tool-* event, and no event that carries the entry's content.
C10_UserEntryNotEmitted ==
    \A k \in 1..Len(consumed) :
        (HasEntries(consumed[k]) /\ LastEntry(consumed[k]).kind = "human") =>
        LET ev == EventsOf(k)
        IN /\ Positions(ev, TextTypes \cup ToolTypes) = {}
           /\ \A i \in 1..Len(ev) :
                 \A f \in DOMAIN ev[i] \cap {"delta", "output", "data"} :
                     ev[i][f] # LastEntry(consumed[k]).content

C10_Witness ==
    \E k \in 1..Len(consumed) :
        /\ HasEntries(consumed[k])
        /\ consumed[k]["messages"]
              = <<AIMessage("hi", <<>>), HumanMessage(UserText)>>
        /\ EventsOf(k) = <<>>
        /\ k < Len(consumed)
        /\ Len(out) > 0

ExtensionFields == {"requirements", "itinerary", "bookings"}

\* C11: for every non-suspension update and every extension field that is
\* present and non-empty in it, exactly one data-<field> event carrying the
\* field's value is emitted for that update, whatever its last entry is.
C11_DataEventPerField ==
    \A k \in 1..Len(consumed) :
        ~IsInterruptUpdate(consumed[k]) =>
        \A f \in ExtensionFields \cap DOMAIN consumed[k] :
            Truthy(consumed[k][f]) =>
            LET ev == EventsOf(k)
                at == Positions(ev, {"data-" \o f})
            IN /\ Cardinality(at) = 1
               /\ \A i \in at : ev[i].data = consumed[k][f]

\* C12: within the events of one update, every data-* event comes after all
\* text-* and tool-* events of that update.
C12_DataAfterMessageEvents ==
    \A k \in 1..Len(consumed) :
        LET ev == EventsOf(k)
        IN \A i \in Positions(ev, DataTypes) :
               \A j \in Positions(ev, TextTypes \cup ToolTypes) : j < i

C12_Witness ==
    \E k \in 1..Len(consumed) :
        LET ev == EventsOf(k)
        IN /\ ~IsInterruptUpdate(consumed[k])
           /\ Len(ev) = 6
           /\ Positions(ev, TextTypes) = {1, 2, 3}
           /\ Positions(ev, DataTypes) = {4, 5, 6}
           /\ pc = "done"

\* the ids of all text-start events of all streams so far, as (stream, place)
TextStartPlaces ==
    {p \in (1..Len(textStarts)) \X (1..MaxUpdates + 1) :
        p[2] <= Len(textStarts[p[1]])}

\* C13: no two text-start events, in one stream or in the streams of
\* different runs, carry the same id.
C13_DistinctTextIds ==
    \A p, q \in TextStartPlaces :
        p # q => textStarts[p[1]][p[2]] # textStarts[q[1]][q[2]]

\* C14: a request with resume=true is accepted only for a thread that is
\* suspended; on any other thread (completed, never created) it ends with an
\* error event and never with a stream of only finish and [DONE].
C14_ResumeOnlyWhenSuspended ==
    \A i \in Slots :
        (run[i].phase = "done" /\ run[i].resume /\ ~run[i].suspended) =>
            /\ run[i].out # <<Finish, Done>>
            /\ \E k \in 1..Len(run[i].out) : run[i].out[k].type = "error"

\* C15: two requests against the same thread id are never in progress at
\* the same time.
C15_OneRunPerThread ==
    \A i, j \in Slots :
        (i # j /\ run[i].phase = "streaming" /\ run[j].phase = "streaming")
            => run[i].thread # run[j].thread

\* C16: runs on distinct thread ids share no checkpointed state: every key
\* of the requirements checkpointer, the derived "<thread_id>-requirements"
\* keys included, is written by the runs of one thread id only.
C16_ThreadsIndependent ==
    \A k \in RequirementsThreads :
        \A w1, w2 \in writers[k] : w1[2] = w2[2]

\* requirements_subgraph_node has just run for the request in slot i
JustRan(i) ==
    /\ run[i].phase = "streaming"
    /\ run[i].calls # <<>>
    /\ run[i].node \in {Halted, "planner"}

\* the nested checkpoint of the request in slot i
SubOf(i) == rstore[SubThread(run[i].thread)]

\* C17: whenever the nested requirements run invoked by
\* requirements_subgraph_node ends suspended with payload p, the node raises
\* a suspension with payload p and the parent run ends suspended with p.
C17_NestedSuspensionPropagates ==
    \A i \in Slots :
        (JustRan(i) /\ SubInterrupted(SubOf(i))) =>
            /\ run[i].node = Halted
            /\ tstore[run[i].thread].pending
            /\ \E k \in 1..Len(run[i].out) :
                  run[i].out[k] =
                      TextDelta(TravelMsgId, SubInterruptMessage(SubOf(i)))

\* C18: on resume of a parent thread suspended in the requirements
\* sub-workflow, the first thing done with the nested thread is its resume
\* with the value the caller supplied; the nested run is not started again
\* from a fresh input before that.
C18_ResumeGoesToNestedFirst ==
    \A i \in Slots :
        (JustRan(i) /\ run[i].suspended) =>
            run[i].calls[1] =
                [op |-> "resume",
                 value |-> run[i].resumes[Len(run[i].resumes)]]

\* C19 as stated: when requirements_subgraph_node raises a suspension, the
\* parent's state and the nested checkpoint the next resume reads both equal
\* what was checkpointed before the node ran.
C19_NothingKeptBeforeSuspension ==
    \A i \in Slots :
        (JustRan(i) /\ run[i].node = Halted) =>
            /\ tstore[run[i].thread].state = run[i].state
            /\ SubOf(i) = run[i].before

\* C19, amended: when requirements_subgraph_node raises a suspension, the
\* parent's checkpointed state is the state the node was given, with nothing
\* of the node's delta merged; the nested thread is not restored: it keeps
\* the entries and the pending interrupt the nested run made before the
\* suspension call.
C19_ParentStateKeptNestedChanged ==
    \A i \in Slots :
        (JustRan(i) /\ run[i].node = Halted) =>
            /\ tstore[run[i].thread].state = run[i].state
            /\ tstore[run[i].thread].next = "requirements_subgraph"
            /\ SubInterrupted(SubOf(i))
            /\ Len(SubOf(i).state.messages)
                  > Len(run[i].before.state.messages)

C19_Witness ==
    \E i \in Slots :
        /\ JustRan(i)
        /\ run[i].node = Halted
        /\ run[i].suspended
        /\ SubInterrupted(run[i].before)

\* the interrupt() calls requirements_subgraph_node made in its last
\* execution for the request in slot i
InterruptCalls(i) ==
    {k \in 1..Len(run[i].calls) : run[i].calls[k].op = "interrupt"}

\* C20: on resume the body of the suspended node runs again as it ran when
\* it was suspended, except that the suspension call that halted is reached
\* again and now returns the supplied value: every resume value recorded for
\* the node is returned by one of its interrupt() calls.
C20_ReplayReachesSuspensionCall ==
    \A i \in Slots :
        (JustRan(i) /\ run[i].suspended) =>
            Cardinality(InterruptCalls(i)) >= Len(run[i].resumes)

\* C21: a run of the requirements graph that is suspended and then resumed
\* with value v until completion makes the same agent and tool node
\* executions, and ends in the same state, as one uninterrupted run in which
\* the suspension call returns v directly.
C21_ResumeEqualsDirectRun ==
    node = END =>
        /\ ideal.node = END
        /\ ideal.state = state
        /\ ideal.steps = ideal.real

C21_Witness ==
    /\ node = END
    /\ status = "completed"
    /\ ideal.resumed = 1
    /\ \E k \in 1..Len(ideal.real) : ideal.real[k].node = "tools"
    /\ \E k \in 1..Len(state.messages) :
          state.messages[k] = HumanMessage("v")

\* the tool calls an entry of loop.trace carries (none for a tools entry or
\* an agent entry without tool calls)
CallsOfEntry(e) ==
    IF e.node # "tools" /\ e.delta["messages"] # <<>>
       /\ HasToolCalls(e.delta["messages"][1])
    THEN e.delta["messages"][1].tool_calls
    ELSE <<>>

\* the entry answers the calls: a tools entry with one tool result per call,
\* carrying the call ids in call order
AnswersCalls(e, calls) ==
    /\ e.node = "tools"
    /\ Len(e.delta["messages"]) = Len(calls)
    /\ \A i \in 1..Len(calls) :
          /\ e.delta["messages"][i].kind = "tool"
          /\ e.delta["messages"][i].tool_call_id = calls[i].id

\* C22: in the requirements, planner and booker graphs an agent step that
\* emits tool calls is followed by the tools node, which appends exactly one
\* tool result per pending call in call order, and then the same agent node
\* is entered again (where it may return or raise).
C22_ToolRoundTrip ==
    \A k \in 1..Len(loop.trace) :
        CallsOfEntry(loop.trace[k]) # <<>> =>
            IF k = Len(loop.trace)
            THEN loop.node = "tools"
            ELSE /\ AnswersCalls(loop.trace[k + 1],
                                 CallsOfEntry(loop.trace[k]))
                 /\ IF k + 1 = Len(loop.trace)
                    THEN loop.node \in {AgentOf(loop.graph), "failed"}
                    ELSE loop.trace[k + 2].node = AgentOf(loop.graph)

\* a run answered two calls of one agent step and the agent ran again
C22_Witness ==
    \E k \in 1..Len(loop.trace) :
        /\ Len(CallsOfEntry(loop.trace[k])) = 2
        /\ k + 2 <= Len(loop.trace)
        /\ loop.trace[k + 2].node = AgentOf(loop.graph)
        /\ loop.graph = "booker"

\* the tool calls of log entry k that no later entry answers
UnansweredCalls(messages, k) ==
    IF messages[k].kind # "ai" THEN {}
    ELSE {i \in 1..Len(messages[k].tool_calls) :
             ~\E j \in (k + 1)..Len(messages) :
                 /\ messages[j].kind = "tool"
                 /\ messages[j].tool_call_id = messages[k].tool_calls[i].id}

\* C23: whenever the agent node of the requirements graph is about to run,
\* every tool call of an earlier agent entry of the log has a tool result
\* with the same call id after it.
C23_CallsAnsweredAtAgent ==
    pc = "streaming" /\ node = "requirements_agent" =>
        \A k \in 1..Len(state.messages) :
            UnansweredCalls(state.messages, k) = {}

\* the planner or booker graph is the one that runs
IsLoopGraph == loop.graph \in {"planner", "booker"}

\* the run is over exactly when its last node execution is an agent step
\* without tool calls, and no earlier agent step of the run was one
EndsAtFirstFinalStep ==
    IsLoopGraph =>
        /\ \A k \in 1..Len(loop.trace) :
              (loop.trace[k].node = AgentOf(loop.graph)
               /\ CallsOfEntry(loop.trace[k]) = <<>>)
                  => (k = Len(loop.trace) /\ loop.node = END)
        /\ loop.node = END =>
              /\ loop.trace # <<>>
              /\ loop.trace[Len(loop.trace)].node = AgentOf(loop.graph)
              /\ CallsOfEntry(loop.trace[Len(loop.trace)]) = <<>>

\* C24: a run of the planner graph or of the booker graph reaches END,
\* provided the agent eventually returns an entry without tool calls, and
\* the tool loop ends exactly at the first agent step that returns none.
C24_LoopReachesCompleted ==
    /\ []EndsAtFirstFinalStep
    /\ (IsLoopGraph /\ loop.node = AgentOf(loop.graph)) ~> (loop.node = END)

\* a planner run completed after a round through the tools node
C24_Witness ==
    /\ loop.graph = "planner"
    /\ loop.node = END
    /\ Len(loop.trace) >= 3
    /\ loop.trace[1].node = "planner_agent"
    /\ loop.trace[2].node = "tools"

\* request i is the first one of its thread and its run halted because the
\* requirements agent asked a question
FirstRunAsked(i) ==
    /\ ~run[i].resume
    /\ run[i].node = Halted
    /\ Len(run[i].state.messages) = 1

\* the question the requirements agent of request i's thread asked last
QuestionOf(i) == rstore[SubThread(run[i].thread)].state.interruption_message

\* C25 (scenario 1): the stream of a thread's first run in which the
\* requirements agent asks a non-empty clarifying question contains a text
\* block whose delta is the question and a finish event with
\* finishReason "interrupt", and no data-requirements event.
C25_FirstRunStreamsQuestion ==
    \A i \in {1} :
        FirstRunAsked(i) /\ QuestionOf(i) # "" =>
            /\ \E k \in 1..(Len(run[i].out) - 2), mid \in MsgIds :
                  SubSeq(run[i].out, k, k + 2) = TextBlock(mid, QuestionOf(i))
            /\ \E k \in 1..Len(run[i].out) : run[i].out[k] = FinishInterrupt
            /\ \A k \in 1..Len(run[i].out) :
                  run[i].out[k].type # "data-requirements"

\* the first run of thread "a" has ended after the agent asked "q"
C25_Witness ==
    /\ FirstRunAsked(1)
    /\ QuestionOf(1) = "q"
    /\ run[1].phase = "done"
    /\ run[1].thread = "a"

\* request i resumed a suspended thread, and the requirements agent called
\* the flight search after the resume value and then finished
ResumedAndFinished(i) ==
    LET log == rstore[SubThread(run[i].thread)].state.messages
    IN /\ run[i].resume
       /\ run[i].suspended
       /\ run[i].phase = "done"
       /\ run[i].node = END
       /\ \E k \in 1..Len(log), j \in 1..Len(log) :
             /\ k < j
             /\ log[k] = HumanMessage(run[i].resumes[1])
             /\ HasToolCalls(log[j])

\* the stream shows a flight search call, later its result under the same
\* toolCallId, later the requirements, and its finish event has no reason
ShowsToolRound(events) ==
    /\ \E a, b, c, d \in 1..Len(events) :
          /\ a < b /\ b < c /\ c < d
          /\ events[a].type = "tool-input-start"
          /\ events[a].toolName = ToolName
          /\ events[b].type = "tool-input-available"
          /\ events[b].toolCallId = events[a].toolCallId
          /\ events[c].type = "tool-output-available"
          /\ events[c].toolCallId = events[a].toolCallId
          /\ events[d].type = "data-requirements"
    /\ \E k \in 1..Len(events) :
          /\ events[k] = Finish
          /\ \A j \in (k + 1)..Len(events) : events[j].type # "finish"

\* C26 (scenario 2): when a suspended thread is resumed with a value that
\* lets the requirements agent finish after a flight search, the stream
\* contains tool-input-start and tool-input-available for the flight search,
\* later tool-output-available with the same toolCallId, then
\* data-requirements, and its last finish event has no finishReason.
C26_ResumeStreamsToolRound ==
    \A i \in {1} : ResumedAndFinished(i) => ShowsToolRound(run[i].out)

\* a tools node execution in which a capability call failed: one of its
\* results is the value the tool returns from its except branches
CapabilityFailed(e) ==
    /\ e.node = "tools"
    /\ \E i \in 1..Len(e.delta["messages"]) :
          e.delta["messages"][i].content = "error"

HasErrorEvent(events) ==
    \E k \in 1..Len(events) : events[k].type = "error"

\* C27 (scenario 3): a failure inside a capability call stays inside the
\* tools node: its result is a tool entry of the log carrying the error
\* marker, the agent node is the next node to run, and the stream holds an
\* error event only if a node executor itself raised.
C27_CapabilityFailureContained ==
    \A k \in 1..Len(ideal.real) :
        CapabilityFailed(ideal.real[k]) =>
            /\ \A i \in 1..Len(ideal.real[k].delta["messages"]) :
                  \E j \in 1..Len(state.messages) :
                      state.messages[j] = ideal.real[k].delta["messages"][i]
            /\ IF k < Len(ideal.real)
               THEN ideal.real[k + 1].node = "requirements_agent"
               ELSE node = "requirements_agent"
            /\ HasErrorEvent(out) => outcome = "error"

\* a run went on to completion after a failed flight search
C27_Witness ==
    /\ \E k \in 1..(Len(ideal.real) - 1) : CapabilityFailed(ideal.real[k])
    /\ status = "completed"
    /\ pc = "done"
    /\ ~HasErrorEvent(out)
    /\ \E k \in 1..Len(out) :
          out[k] = ToolOutputAvailable("c1", "error")

\* an update of malformed shape: not a mapping, or a mapping that holds
\* neither an entry log nor an interrupt nor a field the adapter streams
Malformed(chunk) ==
    \/ ~IsMapping(chunk)
    \/ DOMAIN chunk \cap {"messages", "__interrupt__", "requirements",
                          "itinerary", "bookings"} = {}

\* C28: for every update of malformed shape that stream() receives, an error
\* event is among the events it yields for that update.
C28_MalformedUpdateYieldsError ==
    \A k \in 1..Len(consumed) :
        Malformed(consumed[k]) => HasErrorEvent(EventsOf(k))

\* request i begins in this step
RequestBegins(i) == run[i].phase # "streaming" /\ run'[i].phase = "streaming"

\* C29: a request with resume=true hands its message to the engine as the
\* resume value and adds no entry to the thread's log; a request with
\* resume=false begins a run at the first node whose state is the thread's
\* log followed by the message as user entry, with requirements, itinerary
\* and bookings empty, whatever the thread's checkpoint was.
C29_ResumeFlagSelectsInput ==
    [][\A i \in {1} :
         RequestBegins(i) =>
             LET old == tstore[run'[i].thread]
                 new == run'[i].state
             IN IF run'[i].resume
                THEN /\ new = old.state
                     /\ tstore' = tstore
                     /\ old.pending =>
                           \E v \in ResumeValues :
                               run'[i].resumes = Append(old.resumes, v)
                ELSE /\ Len(new.messages) = Len(old.state.messages) + 1
                     /\ SubSeq(new.messages, 1, Len(old.state.messages))
                           = old.state.messages
                     /\ new.messages[Len(new.messages)].kind = "human"
                     /\ new.messages[Len(new.messages)].content
                           \in UserMessages
                     /\ new.requirements = "None"
                     /\ new.itinerary = "None"
                     /\ new.bookings = "None"
                     /\ run'[i].node = "requirements_subgraph"
                     /\ run'[i].resumes = <<>>
                     /\ tstore'[run'[i].thread].state = new
                     /\ ~tstore'[run'[i].thread].pending]_vars

\* a request with resume=false has begun on a thread that had completed
C29_Witness ==
    /\ run[1].phase = "streaming"
    /\ ~run[1].resume
    /\ run[1].node = "requirements_subgraph"
    /\ run[1].out = <<>>
    /\ run[1].state.requirements = "None"
    /\ \E k \in 1..Len(run[1].state.messages) :
          /\ "name" \in DOMAIN run[1].state.messages[k]
          /\ run[1].state.messages[k].name = "booker"

\* C30: once the client of a run has disconnected, no node of that run
\* starts: no checkpoint of the thread or of its nested thread is written
\* after the disconnection.
C30_NothingRunsAfterDisconnect ==
    [][\A i \in {1} :
         run[i].disconnected /\ run[i].phase = "streaming" =>
             /\ tstore' = tstore
             /\ rstore' = rstore]_vars

\* the places of a stream where the summary of a pipeline node is streamed
SummaryPlaces(events, texts) ==
    {k \in 1..Len(events) :
        events[k].type = "text-delta" /\ events[k].delta \in texts}

RequirementsSummaries ==
    {RequirementsSummary(r) : r \in {"None", "R1"}}

\* C31: within one run the travel pipeline executes requirements_subgraph,
\* planner, booker in this order and each at most once, the next one only
\* after the previous one has returned: planner does not run in a run that
\* halts in a suspension, booker runs only after planner's update with the
\* itinerary, and the run ends only after booker.
C31_PipelineOrder ==
    \A i \in {1} :
        LET events == run[i].out
            req == SummaryPlaces(events, RequirementsSummaries)
            pln == SummaryPlaces(events, {PlannerSummary})
            bkr == SummaryPlaces(events, {BookerSummary})
        IN /\ Cardinality(req) <= 1
           /\ Cardinality(pln) <= 1
           /\ Cardinality(bkr) <= 1
           /\ run[i].node = Halted => pln = {} /\ bkr = {}
           /\ pln # {} => \E a \in req : \A b \in pln : a < b
           /\ bkr # {} =>
                 \E b \in pln : \E d \in 1..Len(events) :
                     /\ b < d
                     /\ events[d].type = "data-itinerary"
                     /\ \A c \in bkr : d < c
           /\ (run[i].node = END /\ (~run[i].resume \/ run[i].suspended))
                 => bkr # {}
           /\ run[i].node = "booker" => pln # {} /\ bkr = {}
           /\ run[i].node = "planner" => req # {} /\ pln = {}

\* a run went through the three nodes and ended
C31_Witness ==
    /\ run[1].phase = "done"
    /\ run[1].node = END
    /\ SummaryPlaces(run[1].out, {BookerSummary}) # {}
    /\ run[1].suspended

\* requirements_agent has run in this step
AgentRan ==
    /\ Len(ideal'.real) = Len(ideal.real) + 1
    /\ ideal'.real[Len(ideal'.real)].node = "requirements_agent"

\* the last entry of the log carries tool calls
LastHasToolCalls(s) ==
    s.messages # <<>> /\ HasToolCalls(s.messages[Len(s.messages)])

\* C32: the node that follows requirements_agent is chosen from the state
\* after it ran: "tools" exactly when the last log entry carries tool calls,
\* otherwise "ask_user_for_info" exactly when requirements_complete is
\* false, otherwise the terminal marker; it is always a declared target.
C32_RouteAfterAgent ==
    [][AgentRan =>
         /\ node' \in EdgeTargets
         /\ node' = "tools" <=> LastHasToolCalls(state')
         /\ node' = "ask_user_for_info" <=>
               (~LastHasToolCalls(state') /\ ~state'.requirements_complete)
         /\ node' = END <=>
               (~LastHasToolCalls(state') /\ state'.requirements_complete)]_vars

\* the agent was routed to the tools node and later to ask_user_for_info
C32_Witness ==
    /\ node = "ask_user_for_info"
    /\ pc = "streaming"
    /\ Len(ideal.real) >= 3
    /\ ideal.real[Len(ideal.real)].node = "requirements_agent"
    /\ \E k \in 1..Len(ideal.real) : ideal.real[k].node = "tools"

\* the finish events of a stream
FinishEvents(events) ==
    {k \in 1..Len(events) : events[k].type = "finish"}

\* C33: the stream of a run that has ended without error holds exactly one
\* finish event: finish with finishReason "interrupt" when the run halted
\* in a suspension, finish without finishReason when it completed.
C33_OneFinishEvent ==
    \A i \in {1} :
        (run[i].phase = "done" /\ run[i].node \in {END, Halted}) =>
            /\ Cardinality(FinishEvents(run[i].out)) = 1
            /\ \A k \in FinishEvents(run[i].out) :
                  run[i].out[k] = IF run[i].node = Halted
                                  THEN FinishInterrupt
                                  ELSE Finish


\* a text-start at place k opens a block that is closed in the same stream:
\* at least one text-delta of the same id, then the text-end of that id,
\* and nothing else in between
BlockClosed(events, k) ==
    \E e \in (k + 2)..Len(events) :
        /\ events[e].type = "text-end"
        /\ events[e].id = events[k].id
        /\ \A j \in (k + 1)..(e - 1) :
              /\ events[j].type = "text-delta"
              /\ events[j].id = events[k].id

\* C34: in a stream that has ended, every text-start is followed by one or
\* more text-delta and then a text-end of the same id, with no event of
\* another block in between; also when the run fails after a text-start.
C34_TextBlocksWellFormed ==
    pc = "done" =>
        \A k \in 1..Len(out) :
            out[k].type = "text-start" => BlockClosed(out, k)


\* C35: in the stream of a run that has completed, every toolCallId of a
\* tool-input-available also has a tool-output-available after it, also when
\* one agent step makes several tool calls that one tools step resolves.
C35_EveryToolCallGetsOutput ==
    (pc = "done" /\ outcome = "completed" /\ node = END) =>
        \A k \in 1..Len(out) :
            out[k].type = "tool-input-available" =>
                \E j \in (k + 1)..Len(out) :
                    /\ out[j].type = "tool-output-available"
                    /\ out[j].toolCallId = out[k].toolCallId


\* C36: requirements_subgraph_node returns normally, so that planner runs
\* next, only when the nested run has completed with its requirements
\* filled in: planner never starts with empty requirements or from a nested
\* run that is still suspended.
C36_PlannerOnlyAfterRequirements ==
    \A i \in Slots :
        (JustRan(i) /\ run[i].node = "planner") =>
            /\ ~SubInterrupted(SubOf(i))
            /\ Truthy(run[i].state.requirements)


\* the nested resumes requirements_subgraph_node made in its last execution
\* for the request in slot i, in call order
NestedResumes(i) == SelectSeq(run[i].calls, LAMBDA c : c.op = "resume")

\* C37: in every round that resumes a suspended travel thread, the value the
\* user supplied in that round is delivered to the nested requirements run
\* exactly once: it is not dropped, and no value is delivered a second time.
C37_ResumeValueDeliveredOnce ==
    \A i \in Slots :
        (JustRan(i) /\ run[i].suspended) =>
            NestedResumes(i) =
                <<[op |-> "resume",
                   value |-> run[i].resumes[Len(run[i].resumes)]]>>


\* C38: the requirements graph is at its terminal marker only with
\* requirements_complete true and requirements filled in, and it is at
\* ask_user_for_info, or suspended in it, only with a non-empty
\* interruption_message.
C38_TerminalAndAskInvariants ==
    /\ node = END =>
          /\ state.requirements_complete
          /\ Truthy(state.requirements)
    /\ node \in {"ask_user_for_info", Halted} =>
          Truthy(state.interruption_message)

C38_Witness ==
    /\ node = END
    /\ pc = "done"
    /\ state.requirements = "R1"
    /\ ideal.resumed = 1
    /\ state.messages[Len(state.messages)] = HumanMessage("v")


\* update k of the current stream was translated into a text-delta of text
DeliveredAsText(k, text) ==
    \E e \in 1..Len(EventsOf(k)) :
        /\ EventsOf(k)[e].type = "text-delta"
        /\ EventsOf(k)[e].delta = text

\* update k is the agent's step that asks the question q
AsksQuestion(k, q) ==
    /\ HasEntries(consumed[k])
    /\ "interruption_message" \in DOMAIN consumed[k]
    /\ consumed[k]["interruption_message"] = q
    /\ LastEntry(consumed[k]) = AIMessage(q, <<>>)

\* update k is the suspension whose payload is q
SuspendsWith(k, q) ==
    /\ IsInterruptUpdate(consumed[k])
    /\ InterruptMessage(consumed[k]) = q

\* C39: within one stream the clarifying question is delivered at most
\* once: the text of the agent entry that asks it and the payload of the
\* suspension that follows are not both emitted as text-delta events.
C39_QuestionDeliveredOnce ==
    \A q \in Questions :
        \A j, k \in 1..Len(consumed) :
            (AsksQuestion(j, q) /\ SuspendsWith(k, q)) =>
                ~(DeliveredAsText(j, q) /\ DeliveredAsText(k, q))

====
